---- MODULE Spec2Model ----
(***************************************************************************)
(* A model of the QQQix simulation core: the cell grid with its flood-fill *)
(* territory capture (src/src/grid.ts), the player's move state machine    *)
(* (src/src/player.ts), the polled keyboard state (src/unnamed/part_001)   *)
(* and the Game session that ticks them (src/unnamed/part_000).            *)
(***************************************************************************)
EXTENDS Integers, Sequences, FiniteSets, TLC

(***************************************************************************)
(* Bounds of the model.  The source fixes GRID_SIZE = 100; the model plays *)
(* the same code on a small square grid.  MaxTicks bounds the timestamps   *)
(* handed to update(), MaxLevel the level counter.                         *)
(***************************************************************************)
GRID_SIZE == 5
MaxTicks == 9
MaxLevel == 2
\* The ticks of a session played with the draw key held (HeldDrawSpec) and
\* the cells off the ring that are not Empty in the grids of GridSpec.
MaxDrawTicks == 16
MaxWalls == 4
\* The width of the grid that CellSpec writes to.
CellWidth == 2
\* The grid size and the number of intervals of WideSpec.
WideSize == 6
MaxWideTicks == 7
\* The number of Filled and Line cells off the ring in FloodSpec.
MaxFloodWalls == 2

\* Program constants of Game.
MOVE_INTERVAL == 30
TARGET_COVERAGE == 75
STARTING_LIVES == 3

\* enum CellType
EMPTY == 0
FILLED == 1
BORDER == 2
LINE == 3

\* enum Direction; null is what getContinuousDirection returns with no arrow held.
UP == "UP"
RIGHT == "RIGHT"
DOWN == "DOWN"
LEFT == "LEFT"
NoDirection == "null"
Directions == {UP, RIGHT, DOWN, LEFT}

\* enum PlayerMode
TRAVERSE == "traverse"
DRAW == "draw"

Point(x, y) == [x |-> x, y |-> y]

(***************************************************************************)
(* Grid: width, height and cells[y][x].                                    *)
(***************************************************************************)
NewGrid(w, h) ==
  [width |-> w, height |-> h,
   cells |-> [y \in 0..(h - 1) |-> [x \in 0..(w - 1) |->
                IF x = 0 \/ x = w - 1 \/ y = 0 \/ y = h - 1 THEN BORDER ELSE EMPTY]]]

GetCell(g, x, y) ==
  IF x < 0 \/ x >= g.width \/ y < 0 \/ y >= g.height THEN BORDER ELSE g.cells[y][x]

\* SetCell writing cells[x][y].
SetCellTransposed(g, x, y, type) ==
  IF x >= 0 /\ x < g.width /\ y >= 0 /\ y < g.height
  THEN [g EXCEPT !.cells[x][y] = type]
  ELSE g

SetCell(g, x, y, type) ==
  IF x >= 0 /\ x < g.width /\ y >= 0 /\ y < g.height
  THEN [g EXCEPT !.cells[y][x] = type]
  ELSE g

\* IsEmpty that takes a BORDER cell for an EMPTY one.
IsEmptyOrBorder(g, x, y) == GetCell(g, x, y) \in {EMPTY, BORDER}

IsEmpty(g, x, y) == GetCell(g, x, y) = EMPTY

IsTraversable(g, x, y) ==
  LET cell == GetCell(g, x, y) IN cell = FILLED \/ cell = BORDER

\* Not in src/src/grid.ts, which player.ts calls; taken from spec.md 4.1:
\* true iff the cell is not Empty.
CanCompleteShape(g, x, y) == GetCell(g, x, y) # EMPTY

SetLine(g, x, y) == SetCell(g, x, y, LINE)

\* ClearLines that leaves the LINE cells in place.
ClearLinesNone(g) == g

ClearLines(g) ==
  [g EXCEPT !.cells = [y \in 0..(g.height - 1) |-> [x \in 0..(g.width - 1) |->
     IF g.cells[y][x] = LINE THEN EMPTY ELSE g.cells[y][x]]]]

\* ConvertLinesToFilled writing EMPTY, as clearLines does.
ConvertLinesToEmpty(g) ==
  [g EXCEPT !.cells = [y \in 0..(g.height - 1) |-> [x \in 0..(g.width - 1) |->
     IF g.cells[y][x] = LINE THEN EMPTY ELSE g.cells[y][x]]]]

ConvertLinesToFilled(g) ==
  [g EXCEPT !.cells = [y \in 0..(g.height - 1) |-> [x \in 0..(g.width - 1) |->
     IF g.cells[y][x] = LINE THEN FILLED ELSE g.cells[y][x]]]]

AllPoints(g) == {Point(x, y) : x \in 0..(g.width - 1), y \in 0..(g.height - 1)}

\* GetCoverage with LINE cells counted as well.
GetCoverageWithLines(g) ==
  LET filledCount == Cardinality({p \in AllPoints(g) : g.cells[p.y][p.x] # EMPTY})
      totalCount == g.width * g.height
  IN [num |-> filledCount * 100, den |-> totalCount]

\* getCoverage returns (filledCount / totalCount) * 100; the model keeps the
\* exact quotient as numerator and denominator.
GetCoverage(g) ==
  LET filledCount == Cardinality({p \in AllPoints(g) :
                        g.cells[p.y][p.x] = FILLED \/ g.cells[p.y][p.x] = BORDER})
      totalCount == g.width * g.height
  IN [num |-> filledCount * 100, den |-> totalCount]

\* c >= n for a coverage c and an integer n.
CoverageAtLeast(c, n) == c.num >= n * c.den

\* IsOnLine looking at the first point of the path only.
IsOnLineStart(x, y, linePath) ==
  \E i \in 1..Len(linePath) : i = 1 /\ linePath[i].x = x /\ linePath[i].y = y

IsOnLine(x, y, linePath) ==
  \E i \in 1..Len(linePath) : linePath[i].x = x /\ linePath[i].y = y

(***************************************************************************)
(* floodFill: the stack-driven loop.  visited holds the points whose key   *)
(* "x,y" is in the code's Set<string>.  One recursive call covers the pops *)
(* that `continue` (visited, out of bounds, not EMPTY) down to the next    *)
(* point that is pushed on the region, together with that point's          *)
(* iteration; the loop ends when only skipped points are left.             *)
(***************************************************************************)
Skipped(g, copy, visited, p) ==
  \/ p \in visited
  \/ p.x < 0 \/ p.x >= g.width \/ p.y < 0 \/ p.y >= g.height
  \/ copy[p.y][p.x] # EMPTY

\* FloodLoop pushing only the right and the lower neighbour.
RECURSIVE FloodLoopRightDown(_, _, _, _, _)
FloodLoopRightDown(g, copy, stack, visited, region) ==
  LET live == {i \in 1..Len(stack) : ~Skipped(g, copy, visited, stack[i])}
  IN IF live = {}
     THEN [region |-> region, visited |-> visited]
     ELSE LET top == CHOOSE i \in live : \A j \in live : j <= i
              p == stack[top]
          IN FloodLoopRightDown(g, copy,
                                SubSeq(stack, 1, top - 1)
                                  \o << Point(p.x + 1, p.y), Point(p.x, p.y + 1) >>,
                                visited \cup {p}, Append(region, p))

RECURSIVE FloodLoop(_, _, _, _, _)
FloodLoop(g, copy, stack, visited, region) ==
  LET live == {i \in 1..Len(stack) : ~Skipped(g, copy, visited, stack[i])}
  IN IF live = {}
     THEN [region |-> region, visited |-> visited]
     ELSE LET top == CHOOSE i \in live : \A j \in live : j <= i
              p == stack[top]
          IN FloodLoop(g, copy,
                       SubSeq(stack, 1, top - 1)
                         \o << Point(p.x + 1, p.y), Point(p.x - 1, p.y),
                               Point(p.x, p.y + 1), Point(p.x, p.y - 1) >>,
                       visited \cup {p}, Append(region, p))

FloodFill(g, copy, startX, startY, visited) ==
  FloodLoop(g, copy, << Point(startX, startY) >>, visited, << >>)

\* The grid copy of captureTerritory with the line's cells marked FILLED.
GridCopy(g, linePath) ==
  [y \in 0..(g.height - 1) |-> [x \in 0..(g.width - 1) |->
     IF IsOnLine(x, y, linePath) THEN FILLED ELSE g.cells[y][x]]]

\* The scan of captureTerritory, rows outermost: one recursive call per
\* cell that starts a flood fill, the cells from index i on that are not
\* EMPTY or are visited being passed over.
RECURSIVE FindRegions(_, _, _, _, _)
FindRegions(g, copy, i, visited, regions) ==
  LET starts == {k \in i..(g.width * g.height - 1) :
                   /\ copy[k \div g.width][k % g.width] = EMPTY
                   /\ Point(k % g.width, k \div g.width) \notin visited}
  IN IF starts = {}
     THEN regions
     ELSE LET k == CHOOSE n \in starts : \A o \in starts : n <= o
              f == FloodFill(g, copy, k % g.width, k \div g.width, visited)
          IN FindRegions(g, copy, k + 1, f.visited,
                         IF Len(f.region) > 0 THEN Append(regions, f.region)
                                              ELSE regions)

\* SortRegions leaving the regions in the order they were found.
SortRegionsUnsorted(regions) == regions

\* regions.sort((a, b) => a.length - b.length): ascending and stable.
RECURSIVE SortRegions(_)
SortRegions(regions) ==
  IF Len(regions) <= 1
  THEN regions
  ELSE LET sorted == SortRegions(SubSeq(regions, 1, Len(regions) - 1))
           r == regions[Len(regions)]
           k == Cardinality({j \in 1..Len(sorted) : Len(sorted[j]) <= Len(r)})
       IN SubSeq(sorted, 1, k) \o << r >> \o SubSeq(sorted, k + 1, Len(sorted))

\* FillAllButLast whose loop fills no region.
FillNoRegion(g, regions) == g

\* FillAllButLast with the loop running from index 1: the first region is
\* kept, not the last.
FillAllButFirst(g, regions) ==
  LET toFill == {p \in AllPoints(g) :
                   \E i \in 2..Len(regions) :
                     \E j \in 1..Len(regions[i]) : regions[i][j] = p}
  IN [g EXCEPT !.cells = [y \in 0..(g.height - 1) |-> [x \in 0..(g.width - 1) |->
        IF Point(x, y) \in toFill THEN FILLED ELSE g.cells[y][x]]]]

\* The cells of every region but the last are set FILLED on the real grid.
FillAllButLast(g, regions) ==
  LET toFill == {p \in AllPoints(g) :
                   \E i \in 1..(Len(regions) - 1) :
                     \E j \in 1..Len(regions[i]) : regions[i][j] = p}
  IN [g EXCEPT !.cells = [y \in 0..(g.height - 1) |-> [x \in 0..(g.width - 1) |->
        IF Point(x, y) \in toFill THEN FILLED ELSE g.cells[y][x]]]]

\* CaptureTerritory without the final convertLinesToFilled.
CaptureTerritoryKeepingLines(g, linePath) ==
  IF Len(linePath) = 0
  THEN g
  ELSE LET regions == FindRegions(g, GridCopy(g, linePath), 0, {}, << >>)
       IN IF Len(regions) = 0
          THEN ConvertLinesToFilled(g)
          ELSE FillAllButLast(g, SortRegions(regions))

\* CaptureTerritory without the early return on an empty path.
CaptureTerritoryAnyPath(g, linePath) ==
  LET regions == FindRegions(g, GridCopy(g, linePath), 0, {}, << >>)
  IN IF Len(regions) = 0
     THEN ConvertLinesToFilled(g)
     ELSE ConvertLinesToFilled(FillAllButLast(g, SortRegions(regions)))

CaptureTerritory(g, linePath) ==
  IF Len(linePath) = 0
  THEN g
  ELSE LET regions == FindRegions(g, GridCopy(g, linePath), 0, {}, << >>)
       IN IF Len(regions) = 0
          THEN ConvertLinesToFilled(g)
          ELSE ConvertLinesToFilled(FillAllButLast(g, SortRegions(regions)))

(***************************************************************************)
(* InputHandler: the polled key state; a key never set reads as not held.  *)
(***************************************************************************)
Keys == {"ArrowUp", "ArrowRight", "ArrowDown", "ArrowLeft", " "}
KeyStates == [Keys -> BOOLEAN]

\* GetContinuousDirection answering LEFT when no arrow is held.
GetContinuousDirectionOrLeft(keyState) ==
  IF keyState["ArrowUp"] THEN UP
  ELSE IF keyState["ArrowRight"] THEN RIGHT
  ELSE IF keyState["ArrowDown"] THEN DOWN
  ELSE LEFT

GetContinuousDirection(keyState) ==
  IF keyState["ArrowUp"] THEN UP
  ELSE IF keyState["ArrowRight"] THEN RIGHT
  ELSE IF keyState["ArrowDown"] THEN DOWN
  ELSE IF keyState["ArrowLeft"] THEN LEFT
  ELSE NoDirection

IsSpacePressed(keyState) == keyState[" "] = TRUE

(***************************************************************************)
(* Player and movePlayer.                                                  *)
(***************************************************************************)
CreatePlayer(g) ==
  [x |-> g.width \div 2, y |-> g.height - 1, mode |-> TRAVERSE,
   direction |-> UP, linePath |-> << >>]

GetDX(direction) ==
  CASE direction = RIGHT -> 1
    [] direction = LEFT -> -1
    [] OTHER -> 0

GetDY(direction) ==
  CASE direction = DOWN -> 1
    [] direction = UP -> -1
    [] OTHER -> 0

\* IsOppositeDirection without the LEFT/RIGHT cases.
IsOppositeVertical(dir1, dir2) ==
  \/ (dir1 = UP /\ dir2 = DOWN)
  \/ (dir1 = DOWN /\ dir2 = UP)

IsOppositeDirection(dir1, dir2) ==
  \/ (dir1 = UP /\ dir2 = DOWN)
  \/ (dir1 = DOWN /\ dir2 = UP)
  \/ (dir1 = LEFT /\ dir2 = RIGHT)
  \/ (dir1 = RIGHT /\ dir2 = LEFT)

\* A MoveResult without capturedPath (the field is left undefined).
MoveResult(moved, completedShape, died) ==
  [moved |-> moved, completedShape |-> completedShape, gameOver |-> FALSE,
   died |-> died, hasCapturedPath |-> FALSE, capturedPath |-> << >>]

\* movePlayer mutates the player and the grid it is given and returns a
\* MoveResult: the three are returned together.  Rejected is the final
\* `return { moved: false, ... }` and the like of it.
Rejected(player, g) ==
  [player |-> player, grid |-> g, result |-> MoveResult(FALSE, FALSE, FALSE)]

\* TraverseMove starting linePath with the cell the player leaves.
TraverseMoveFromOldPosition(player, g, newX, newY, spacePressed) ==
  IF IsTraversable(g, newX, newY)
  THEN [player |-> [player EXCEPT !.x = newX, !.y = newY], grid |-> g,
        result |-> MoveResult(TRUE, FALSE, FALSE)]
  ELSE IF IsEmpty(g, newX, newY)
  THEN IF ~spacePressed
       THEN Rejected(player, g)
       ELSE [player |-> [player EXCEPT !.mode = DRAW, !.x = newX, !.y = newY,
                                       !.linePath = << Point(player.x, player.y),
                                                       Point(newX, newY) >>],
             grid |-> SetLine(g, newX, newY),
             result |-> MoveResult(TRUE, FALSE, FALSE)]
  ELSE Rejected(player, g)

\* TraverseMove without the isSpacePressed check.
TraverseMoveAnyKey(player, g, newX, newY, spacePressed) ==
  IF IsTraversable(g, newX, newY)
  THEN [player |-> [player EXCEPT !.x = newX, !.y = newY], grid |-> g,
        result |-> MoveResult(TRUE, FALSE, FALSE)]
  ELSE IF IsEmpty(g, newX, newY)
  THEN [player |-> [player EXCEPT !.mode = DRAW, !.x = newX, !.y = newY,
                                  !.linePath = << Point(newX, newY) >>],
        grid |-> SetLine(g, newX, newY),
        result |-> MoveResult(TRUE, FALSE, FALSE)]
  ELSE Rejected(player, g)

\* The TRAVERSE branch of movePlayer; player already faces the direction.
TraverseMove(player, g, newX, newY, spacePressed) ==
  IF IsTraversable(g, newX, newY)
  THEN [player |-> [player EXCEPT !.x = newX, !.y = newY], grid |-> g,
        result |-> MoveResult(TRUE, FALSE, FALSE)]
  ELSE IF IsEmpty(g, newX, newY)
  THEN IF ~spacePressed
       THEN Rejected(player, g)
       ELSE [player |-> [player EXCEPT !.mode = DRAW, !.x = newX, !.y = newY,
                                       !.linePath = << Point(newX, newY) >>],
             grid |-> SetLine(g, newX, newY),
             result |-> MoveResult(TRUE, FALSE, FALSE)]
  ELSE Rejected(player, g)

\* DrawMove with linePath cleared before it is copied to capturedPath.
DrawMoveClearingFirst(player, g, newX, newY) ==
  IF IsEmpty(g, newX, newY)
  THEN [player |-> [player EXCEPT !.x = newX, !.y = newY,
                                  !.linePath = Append(@, Point(newX, newY))],
        grid |-> SetLine(g, newX, newY),
        result |-> MoveResult(TRUE, FALSE, FALSE)]
  ELSE IF CanCompleteShape(g, newX, newY)
  THEN [player |-> [player EXCEPT !.x = newX, !.y = newY, !.mode = TRAVERSE,
                                  !.linePath = << >>],
        grid |-> g,
        result |-> [moved |-> TRUE,
                    completedShape |-> Len(player.linePath) > 0,
                    gameOver |-> FALSE, died |-> FALSE,
                    hasCapturedPath |-> TRUE,
                    capturedPath |-> << >>]]
  ELSE Rejected(player, g)

\* DrawMove pushing the position the player leaves on linePath.
DrawMovePushingOldPosition(player, g, newX, newY) ==
  IF IsEmpty(g, newX, newY)
  THEN [player |-> [player EXCEPT !.x = newX, !.y = newY,
                                  !.linePath = Append(@, Point(player.x, player.y))],
        grid |-> SetLine(g, newX, newY),
        result |-> MoveResult(TRUE, FALSE, FALSE)]
  ELSE IF CanCompleteShape(g, newX, newY)
  THEN [player |-> [player EXCEPT !.x = newX, !.y = newY, !.mode = TRAVERSE,
                                  !.linePath = << >>],
        grid |-> g,
        result |-> [moved |-> TRUE,
                    completedShape |-> Len(player.linePath) > 0,
                    gameOver |-> FALSE, died |-> FALSE,
                    hasCapturedPath |-> TRUE,
                    capturedPath |-> player.linePath]]
  ELSE Rejected(player, g)

\* DrawMove without `player.linePath = []` on completion.
DrawMoveKeepingPath(player, g, newX, newY) ==
  IF IsEmpty(g, newX, newY)
  THEN [player |-> [player EXCEPT !.x = newX, !.y = newY,
                                  !.linePath = Append(@, Point(newX, newY))],
        grid |-> SetLine(g, newX, newY),
        result |-> MoveResult(TRUE, FALSE, FALSE)]
  ELSE IF CanCompleteShape(g, newX, newY)
  THEN [player |-> [player EXCEPT !.x = newX, !.y = newY, !.mode = TRAVERSE],
        grid |-> g,
        result |-> [moved |-> TRUE,
                    completedShape |-> Len(player.linePath) > 0,
                    gameOver |-> FALSE, died |-> FALSE,
                    hasCapturedPath |-> TRUE,
                    capturedPath |-> player.linePath]]
  ELSE Rejected(player, g)

\* The DRAW branch of movePlayer; player already faces the direction.
DrawMove(player, g, newX, newY) ==
  IF IsEmpty(g, newX, newY)
  THEN [player |-> [player EXCEPT !.x = newX, !.y = newY,
                                  !.linePath = Append(@, Point(newX, newY))],
        grid |-> SetLine(g, newX, newY),
        result |-> MoveResult(TRUE, FALSE, FALSE)]
  ELSE IF CanCompleteShape(g, newX, newY)
  THEN [player |-> [player EXCEPT !.x = newX, !.y = newY, !.mode = TRAVERSE,
                                  !.linePath = << >>],
        grid |-> g,
        result |-> [moved |-> TRUE,
                    completedShape |-> Len(player.linePath) > 0,
                    gameOver |-> FALSE, died |-> FALSE,
                    hasCapturedPath |-> TRUE,
                    capturedPath |-> player.linePath]]
  ELSE Rejected(player, g)

\* MovePlayer with player.direction assigned only when the Traverse-mode
\* move has moved the player.
MovePlayerTurningOnMove(player, g, direction, spacePressed) ==
  LET newX == player.x + GetDX(direction)
      newY == player.y + GetDY(direction)
      turned == [player EXCEPT !.direction = direction]
  IN IF newX < 0 \/ newX >= g.width \/ newY < 0 \/ newY >= g.height
     THEN Rejected(player, g)
     ELSE IF player.mode = DRAW /\ IsOppositeDirection(player.direction, direction)
     THEN Rejected(player, g)
     ELSE IF player.mode = DRAW /\ IsOnLine(newX, newY, player.linePath)
     THEN [player |-> turned, grid |-> g, result |-> MoveResult(FALSE, FALSE, TRUE)]
     ELSE IF player.mode = TRAVERSE
     THEN LET m == TraverseMove(turned, g, newX, newY, spacePressed)
          IN IF m.result.moved THEN m ELSE Rejected(player, g)
     ELSE IF player.mode = DRAW
     THEN DrawMove(turned, g, newX, newY)
     ELSE Rejected(turned, g)

\* MovePlayer with player.direction assigned before the bounds check.
MovePlayerTurningFirst(player, g, direction, spacePressed) ==
  LET newX == player.x + GetDX(direction)
      newY == player.y + GetDY(direction)
      turned == [player EXCEPT !.direction = direction]
  IN IF newX < 0 \/ newX >= g.width \/ newY < 0 \/ newY >= g.height
     THEN Rejected(turned, g)
     ELSE IF player.mode = DRAW /\ IsOppositeDirection(player.direction, direction)
     THEN Rejected(player, g)
     ELSE IF player.mode = DRAW /\ IsOnLine(newX, newY, player.linePath)
     THEN [player |-> turned, grid |-> g, result |-> MoveResult(FALSE, FALSE, TRUE)]
     ELSE IF player.mode = TRAVERSE
     THEN TraverseMove(turned, g, newX, newY, spacePressed)
     ELSE IF player.mode = DRAW
     THEN DrawMove(turned, g, newX, newY)
     ELSE Rejected(turned, g)

MovePlayer(player, g, direction, spacePressed) ==
  LET newX == player.x + GetDX(direction)
      newY == player.y + GetDY(direction)
      turned == [player EXCEPT !.direction = direction]
  IN IF newX < 0 \/ newX >= g.width \/ newY < 0 \/ newY >= g.height
     THEN Rejected(player, g)
     ELSE IF player.mode = DRAW /\ IsOppositeDirection(player.direction, direction)
     THEN Rejected(player, g)
     ELSE IF player.mode = DRAW /\ IsOnLine(newX, newY, player.linePath)
     THEN [player |-> turned, grid |-> g, result |-> MoveResult(FALSE, FALSE, TRUE)]
     ELSE IF player.mode = TRAVERSE
     THEN TraverseMove(turned, g, newX, newY, spacePressed)
     ELSE IF player.mode = DRAW
     THEN DrawMove(turned, g, newX, newY)
     ELSE Rejected(turned, g)

(***************************************************************************)
(* Game.  A session is the record of the Game object's fields, with two    *)
(* records of what the last update() did: moveResult holds the MoveResult  *)
(* its movePlayer call returned (empty when update() returned before the   *)
(* call), captured holds the grid before, the path and the grid after its  *)
(* captureTerritory call (empty when it made none).  flood holds the       *)
(* locals of a captureTerritory call that is followed one loop iteration   *)
(* at a time (FloodSpec); it is idle in every other specification.         *)
(***************************************************************************)
VARIABLES grid, player, level, lives, lastMoveTime, gameOver, moveResult, captured,
          flood

vars == << grid, player, level, lives, lastMoveTime, gameOver, moveResult, captured,
           flood >>

\* No captureTerritory call is being followed.
NoFlood ==
  [phase |-> "idle", copy |-> << >>, i |-> 0, stack |-> << >>, visited |-> {},
   region |-> << >>, regions |-> << >>]

This ==
  [grid |-> grid, player |-> player, level |-> level, lives |-> lives,
   lastMoveTime |-> lastMoveTime, gameOver |-> gameOver,
   moveResult |-> moveResult, captured |-> captured, flood |-> flood]

NewGame(size) ==
  [grid |-> NewGrid(size, size), player |-> CreatePlayer(NewGrid(size, size)),
   level |-> 1, lives |-> STARTING_LIVES, lastMoveTime |-> 0, gameOver |-> FALSE,
   moveResult |-> << >>, captured |-> << >>, flood |-> NoFlood]

HandleShapeCompletion(s, capturedPath) ==
  LET after == CaptureTerritory(s.grid, capturedPath)
  IN [s EXCEPT !.grid = after,
               !.captured = << [before |-> s.grid, path |-> capturedPath,
                                after |-> after] >>]

\* NextLevel without the createPlayer call.
NextLevelKeepingPlayer(s) ==
  [s EXCEPT !.level = s.level + 1,
            !.grid = NewGrid(GRID_SIZE, GRID_SIZE)]

\* NextLevel without the level++.
NextLevelKeepingLevel(s) ==
  [s EXCEPT !.grid = NewGrid(GRID_SIZE, GRID_SIZE),
            !.player = CreatePlayer(NewGrid(GRID_SIZE, GRID_SIZE))]

NextLevel(s) ==
  [s EXCEPT !.level = s.level + 1,
            !.grid = NewGrid(GRID_SIZE, GRID_SIZE),
            !.player = CreatePlayer(NewGrid(GRID_SIZE, GRID_SIZE))]

HandleGameOver(s) == [s EXCEPT !.gameOver = TRUE]

\* HandleDeath without the clearLines call.
HandleDeathKeepingLines(s) ==
  LET s1 == [s EXCEPT !.lives = s.lives - 1]
  IN IF s1.lives <= 0
     THEN HandleGameOver(s1)
     ELSE [s1 EXCEPT !.player = CreatePlayer(s1.grid)]

HandleDeath(s) ==
  LET s1 == [s EXCEPT !.lives = s.lives - 1]
  IN IF s1.lives <= 0
     THEN HandleGameOver(s1)
     ELSE [s1 EXCEPT !.grid = ClearLines(s1.grid),
                     !.player = CreatePlayer(ClearLines(s1.grid))]

\* Update without the interval test: every tick is processed.
UpdateEveryTick(s, timestamp, keyState) ==
  LET s0 == [s EXCEPT !.moveResult = << >>, !.captured = << >>]
      s1 == [s0 EXCEPT !.lastMoveTime = timestamp]
      direction == GetContinuousDirection(keyState)
  IN IF direction = NoDirection
     THEN s1
     ELSE
       LET m == MovePlayer(s1.player, s1.grid, direction, IsSpacePressed(keyState))
           s2 == [s1 EXCEPT !.player = m.player, !.grid = m.grid,
                            !.moveResult = << m.result >>]
       IN IF m.result.died THEN HandleDeath(s2)
          ELSE IF m.result.gameOver THEN HandleGameOver(s2)
          ELSE
            LET s3 == IF m.result.completedShape /\ m.result.hasCapturedPath
                      THEN HandleShapeCompletion(s2, m.result.capturedPath)
                      ELSE s2
            IN IF CoverageAtLeast(GetCoverage(s3.grid), TARGET_COVERAGE)
               THEN NextLevel(s3)
               ELSE s3

Update(s, timestamp, keyState) ==
  LET s0 == [s EXCEPT !.moveResult = << >>, !.captured = << >>]
  IN IF timestamp - s0.lastMoveTime < MOVE_INTERVAL
     THEN s0
     ELSE
       LET s1 == [s0 EXCEPT !.lastMoveTime = timestamp]
           direction == GetContinuousDirection(keyState)
       IN IF direction = NoDirection
          THEN s1
          ELSE
            LET m == MovePlayer(s1.player, s1.grid, direction, IsSpacePressed(keyState))
                s2 == [s1 EXCEPT !.player = m.player, !.grid = m.grid,
                                 !.moveResult = << m.result >>]
            IN IF m.result.died THEN HandleDeath(s2)
               ELSE IF m.result.gameOver THEN HandleGameOver(s2)
               ELSE
                 LET s3 == IF m.result.completedShape /\ m.result.hasCapturedPath
                           THEN HandleShapeCompletion(s2, m.result.capturedPath)
                           ELSE s2
                 IN IF CoverageAtLeast(GetCoverage(s3.grid), TARGET_COVERAGE)
                    THEN NextLevel(s3)
                    ELSE s3

\* The session s is the state (Constructed) or the next state (Install).
Constructed(s) ==
  /\ grid = s.grid
  /\ player = s.player
  /\ level = s.level
  /\ lives = s.lives
  /\ lastMoveTime = s.lastMoveTime
  /\ gameOver = s.gameOver
  /\ moveResult = s.moveResult
  /\ captured = s.captured
  /\ flood = s.flood

Install(s) ==
  /\ grid' = s.grid
  /\ player' = s.player
  /\ level' = s.level
  /\ lives' = s.lives
  /\ lastMoveTime' = s.lastMoveTime
  /\ gameOver' = s.gameOver
  /\ moveResult' = s.moveResult
  /\ captured' = s.captured
  /\ flood' = s.flood

(***************************************************************************)
(* The inputs of a tick: the timestamp and the key state polled in it.  A  *)
(* tick comes one interval after the last processed one, or one            *)
(* millisecond too early.                                                  *)
(***************************************************************************)
AllKeys == [k \in Keys |-> TRUE]

\* At most one arrow held, with or without the draw key, or every key held.
HeldKeys ==
  {ks \in KeyStates :
     Cardinality({k \in Keys \ {" "} : ks[k]}) <= 1 \/ ks = AllKeys}

\* One arrow held together with the draw key.
HeldDrawKeys ==
  {ks \in KeyStates : ks[" "] /\ Cardinality({k \in Keys \ {" "} : ks[k]}) = 1}

\* ArrowUp alone, ArrowUp with the draw key, or nothing held.
HeldUpKeys ==
  {ks \in KeyStates : \A k \in Keys \ {" ", "ArrowUp"} : ~ks[k]}

TickInputs(keyStates) ==
  {<< lastMoveTime + MOVE_INTERVAL, ks >> : ks \in keyStates}
    \cup {<< lastMoveTime + MOVE_INTERVAL - 1, AllKeys >>}

\* One call of update(timestamp), the level counter and the clock capped.
Tick(keyStates, maxTicks) ==
  \E input \in TickInputs(keyStates) :
    /\ input[1] <= maxTicks * MOVE_INTERVAL
    /\ level < MaxLevel
    /\ Install(Update(This, input[1], input[2]))

(***************************************************************************)
(* Spec: a session of the Game, any key state at each tick.                *)
(***************************************************************************)
Init == Constructed(NewGame(GRID_SIZE))

UpdateStep == Tick(HeldKeys, MaxTicks)

Next == UpdateStep

Spec == Init /\ [][Next]_vars

(***************************************************************************)
(* HeldDrawSpec: the same session played for longer with the draw key and  *)
(* one arrow held at every tick.                                           *)
(***************************************************************************)
HeldDrawStep == Tick(HeldDrawKeys, MaxDrawTicks)

HeldDrawSpec == Init /\ [][HeldDrawStep]_vars

(***************************************************************************)
(* UpScenarioSpec: the session on a 10x10 grid with only ArrowUp and the   *)
(* draw key in play.                                                       *)
(***************************************************************************)
UpScenarioInit == Constructed(NewGame(10))

UpScenarioStep == Tick(HeldUpKeys, MaxDrawTicks)

UpScenarioSpec == UpScenarioInit /\ [][UpScenarioStep]_vars

(***************************************************************************)
(* GridSpec: captureTerritory on the grids with a Border ring and at most  *)
(* MaxWalls cells off the ring Filled or Line, called through              *)
(* handleShapeCompletion with the grid's Line cells as the path, or with   *)
(* the empty path.                                                         *)
(***************************************************************************)
Interior(g) ==
  {p \in AllPoints(g) : p.x > 0 /\ p.x < g.width - 1 /\ p.y > 0 /\ p.y < g.height - 1}

WalledGrid(filled, lines) ==
  LET g == NewGrid(GRID_SIZE, GRID_SIZE)
  IN [g EXCEPT !.cells = [y \in 0..(g.height - 1) |-> [x \in 0..(g.width - 1) |->
        IF Point(x, y) \in lines THEN LINE
        ELSE IF Point(x, y) \in filled THEN FILLED
        ELSE g.cells[y][x]]]]

\* The Line cells of g in row order, as a path.
RECURSIVE LineCells(_, _)
LineCells(g, i) ==
  IF i >= g.width * g.height
  THEN << >>
  ELSE LET x == i % g.width
           y == i \div g.width
       IN IF g.cells[y][x] = LINE
          THEN << Point(x, y) >> \o LineCells(g, i + 1)
          ELSE LineCells(g, i + 1)

GridInit ==
  \E walls \in SUBSET Interior(NewGrid(GRID_SIZE, GRID_SIZE)) :
    /\ Cardinality(walls) <= MaxWalls
    /\ \E lines \in SUBSET walls :
         Constructed([NewGame(GRID_SIZE) EXCEPT !.grid = WalledGrid(walls \ lines, lines)])

CaptureStep ==
  \E path \in {LineCells(grid, 0), << >>} :
    Install(HandleShapeCompletion(This, path))

GridSpec == GridInit /\ [][CaptureStep]_vars

(***************************************************************************)
(* WideSpec: a session of the Game on a grid of WideSize, where a capture  *)
(* can fill a region and leave the coverage below the target.              *)
(***************************************************************************)
WideInit == Constructed(NewGame(WideSize))

WideStep == Tick(HeldKeys, MaxWideTicks)

WideSpec == WideInit /\ [][WideStep]_vars

(***************************************************************************)
(* FloodSpec: the region search of captureTerritory followed one loop      *)
(* iteration at a time, on the grids with a Border ring and at most        *)
(* MaxFloodWalls cells off the ring Filled or Line, one Line cell at       *)
(* least, with the Line cells as the path.  ScanStep is one iteration of   *)
(* the loops over y and x up to the floodFill call (or their exit),        *)
(* FloodPop one iteration of floodFill's while loop (or its exit and the   *)
(* push of the region).  The loops run to their end once started.          *)
(***************************************************************************)
StartFlood(g, linePath) ==
  [phase |-> "scan", copy |-> GridCopy(g, linePath), i |-> 0, stack |-> << >>,
   visited |-> {}, region |-> << >>, regions |-> << >>]

FloodInit ==
  \E walls \in SUBSET Interior(NewGrid(GRID_SIZE, GRID_SIZE)) :
    /\ Cardinality(walls) <= MaxFloodWalls
    /\ \E lines \in (SUBSET walls) \ {{}} :
         LET g == WalledGrid(walls \ lines, lines)
         IN Constructed([NewGame(GRID_SIZE) EXCEPT
                           !.grid = g,
                           !.flood = StartFlood(g, LineCells(g, 0))])

ScanStep ==
  /\ flood.phase = "scan"
  /\ LET x == flood.i % grid.width
         y == flood.i \div grid.width
     IN flood' =
          IF flood.i >= grid.width * grid.height
          THEN [flood EXCEPT !.phase = "done"]
          ELSE IF flood.copy[y][x] = EMPTY /\ Point(x, y) \notin flood.visited
          THEN [flood EXCEPT !.phase = "fill", !.stack = << Point(x, y) >>,
                             !.region = << >>]
          ELSE [flood EXCEPT !.i = @ + 1]
  /\ UNCHANGED << grid, player, level, lives, lastMoveTime, gameOver, moveResult,
                  captured >>

\* FloodPop without the `visited.has(key)` test.
FloodPopRevisiting ==
  /\ flood.phase = "fill"
  /\ flood' =
       IF Len(flood.stack) = 0
       THEN [flood EXCEPT !.phase = "scan", !.i = @ + 1, !.region = << >>,
                          !.regions = IF Len(flood.region) > 0
                                      THEN Append(@, flood.region) ELSE @]
       ELSE LET p == flood.stack[Len(flood.stack)]
                rest == SubSeq(flood.stack, 1, Len(flood.stack) - 1)
            IN IF Skipped(grid, flood.copy, {}, p)
               THEN [flood EXCEPT !.stack = rest]
               ELSE [flood EXCEPT !.visited = @ \cup {p},
                                  !.region = Append(@, p),
                                  !.stack = rest \o << Point(p.x + 1, p.y),
                                                       Point(p.x - 1, p.y),
                                                       Point(p.x, p.y + 1),
                                                       Point(p.x, p.y - 1) >>]
  /\ UNCHANGED << grid, player, level, lives, lastMoveTime, gameOver, moveResult,
                  captured >>

FloodPop ==
  /\ flood.phase = "fill"
  /\ flood' =
       IF Len(flood.stack) = 0
       THEN [flood EXCEPT !.phase = "scan", !.i = @ + 1, !.region = << >>,
                          !.regions = IF Len(flood.region) > 0
                                      THEN Append(@, flood.region) ELSE @]
       ELSE LET p == flood.stack[Len(flood.stack)]
                rest == SubSeq(flood.stack, 1, Len(flood.stack) - 1)
            IN IF Skipped(grid, flood.copy, flood.visited, p)
               THEN [flood EXCEPT !.stack = rest]
               ELSE [flood EXCEPT !.visited = @ \cup {p},
                                  !.region = Append(@, p),
                                  !.stack = rest \o << Point(p.x + 1, p.y),
                                                       Point(p.x - 1, p.y),
                                                       Point(p.x, p.y + 1),
                                                       Point(p.x, p.y - 1) >>]
  /\ UNCHANGED << grid, player, level, lives, lastMoveTime, gameOver, moveResult,
                  captured >>

FloodNext == ScanStep \/ FloodPop

FloodSpec == FloodInit /\ [][FloodNext]_vars /\ WF_vars(FloodNext)

(***************************************************************************)
(* CellSpec: setCell with any cell type at any coordinate of a grid of     *)
(* CellWidth columns and two rows, or one cell outside it.                 *)
(***************************************************************************)
CellTypes == {EMPTY, FILLED, BORDER, LINE}

CellInit ==
  Constructed([NewGame(GRID_SIZE) EXCEPT
                 !.grid = NewGrid(CellWidth, 2),
                 !.player = CreatePlayer(NewGrid(CellWidth, 2))])

SetCellStep ==
  \E x \in -1..grid.width, y \in -1..grid.height, type \in CellTypes :
    Install([This EXCEPT !.grid = SetCell(grid, x, y, type)])

CellSpec == CellInit /\ [][SetCellStep]_vars

(***************************************************************************)
(* Properties.                                                             *)
(***************************************************************************)
Attempted == Len(moveResult) = 1

\* The maximal 4-connected sets of cells of `open`, by closure.
Adjacent(p, q) ==
  \/ (p.x = q.x /\ (p.y = q.y + 1 \/ q.y = p.y + 1))
  \/ (p.y = q.y /\ (p.x = q.x + 1 \/ q.x = p.x + 1))

RECURSIVE Closure(_, _)
Closure(open, seen) ==
  LET more == seen \cup {q \in open : \E p \in seen : Adjacent(p, q)}
  IN IF more = seen THEN seen ELSE Closure(open, more)

OnPath(p, path) == \E i \in 1..Len(path) : path[i] = p

\* The Empty regions of g with the cells of path taken as walls.
EmptyRegions(g, path) ==
  LET open == {p \in AllPoints(g) : g.cells[p.y][p.x] = EMPTY /\ ~OnPath(p, path)}
  IN {Closure(open, {p}) : p \in open}

LargestSize(regions) ==
  CHOOSE n \in {Cardinality(r) : r \in regions} :
    \A r \in regions : Cardinality(r) <= n

\* C1: on a tick whose move reports died with more than one life left, the
\* update takes exactly one life, puts the player at bottom-center in
\* Traverse mode with an empty linePath, turns every Line cell Empty and
\* leaves every Filled and Border cell as it was.
C1_DeathResets ==
  [][(Len(moveResult') = 1 /\ moveResult'[1].died /\ lives > 1) =>
       /\ lives' = lives - 1
       /\ player'.x = grid.width \div 2
       /\ player'.y = grid.height - 1
       /\ player'.mode = TRAVERSE
       /\ player'.linePath = << >>
       /\ \A p \in AllPoints(grid) :
            /\ grid.cells[p.y][p.x] = LINE => grid'.cells[p.y][p.x] = EMPTY
            /\ grid.cells[p.y][p.x] \in {FILLED, BORDER}
                 => grid'.cells[p.y][p.x] = grid.cells[p.y][p.x]]_vars

\* A death with a life left, on a grid that holds captured territory.
C1_Witness ==
  /\ Attempted
  /\ moveResult[1].died
  /\ lives = STARTING_LIVES - 1
  /\ player = CreatePlayer(grid)
  /\ \E p \in AllPoints(grid) : grid.cells[p.y][p.x] = FILLED

\* C2: after captureTerritory with a non-empty path, of the Empty regions
\* of the grid before the call (path cells taken as walls) a region of the
\* largest size is still all Empty and every strictly smaller region is all
\* Filled.
C2_LargestStaysSmallerFilled ==
  \A i \in 1..Len(captured) :
    LET c == captured[i]
        regions == EmptyRegions(c.before, c.path)
    IN (Len(c.path) > 0 /\ regions # {}) =>
         /\ \E r \in regions :
              /\ Cardinality(r) = LargestSize(regions)
              /\ \A p \in r : c.after.cells[p.y][p.x] = EMPTY
         /\ \A r \in regions :
              Cardinality(r) < LargestSize(regions)
                => \A p \in r : c.after.cells[p.y][p.x] = FILLED

\* A capture that found a region strictly smaller than the largest.
C2_Witness ==
  /\ Len(captured) = 1
  /\ Len(captured[1].path) > 0
  /\ \E r \in EmptyRegions(captured[1].before, captured[1].path) :
       Cardinality(r) < LargestSize(EmptyRegions(captured[1].before, captured[1].path))

\* C3: once the session is in game-over, every later update() call leaves
\* the grid, the player, level and lives unchanged.
C3_GameOverTerminal ==
  [][gameOver => (grid' = grid /\ player' = player /\ level' = level /\ lives' = lives)]_vars

\* A grid with a Border ring and an Empty interior.
IsFreshGrid(g) ==
  \A p \in AllPoints(g) :
    g.cells[p.y][p.x] =
      IF p.x = 0 \/ p.x = g.width - 1 \/ p.y = 0 \/ p.y = g.height - 1
      THEN BORDER ELSE EMPTY

\* The player at bottom-center in Traverse mode with an empty linePath.
IsAtStart(p, g) ==
  /\ p.x = g.width \div 2
  /\ p.y = g.height - 1
  /\ p.mode = TRAVERSE
  /\ p.linePath = << >>

\* a <= b for two coverages.
CoverageLeq(a, b) == a.num * b.den <= b.num * a.den

C5_CoverageMonotone ==
  [][~(Len(moveResult') = 1 /\ moveResult'[1].died)
       => CoverageLeq(GetCoverage(grid), GetCoverage(grid'))]_vars

\* C5 (amended): across every update() that is neither a death-triggered
\* reset nor a level advance, the coverage after the call is >= the
\* coverage before it.
C5_CoverageMonotoneWithinLevel ==
  [][(~(Len(moveResult') = 1 /\ moveResult'[1].died) /\ level' = level)
       => CoverageLeq(GetCoverage(grid), GetCoverage(grid'))]_vars

\* A capture that raised the coverage and left the level as it was.
C5_Witness ==
  /\ level = 1
  /\ Len(captured) = 1
  /\ grid = captured[1].after
  /\ ~CoverageLeq(GetCoverage(grid), GetCoverage(captured[1].before))

\* The direction exactly opposite to d, and the coordinate one step from
\* the point p in direction d.
OppositeOf(d) ==
  CASE d = UP -> DOWN
    [] d = DOWN -> UP
    [] d = LEFT -> RIGHT
    [] d = RIGHT -> LEFT

Target(p, d) ==
  CASE d = UP -> Point(p.x, p.y - 1)
    [] d = DOWN -> Point(p.x, p.y + 1)
    [] d = LEFT -> Point(p.x - 1, p.y)
    [] d = RIGHT -> Point(p.x + 1, p.y)

InGrid(g, p) == p \in AllPoints(g)

\* C6: in Draw mode a move attempt in the direction exactly opposite to the
\* facing returns moved=false, died=false, completedShape=false and leaves
\* the player (position, facing, mode, linePath) and the grid as they were.
C6_ReversalRejected ==
  \A spacePressed \in BOOLEAN :
    player.mode = DRAW =>
      LET m == MovePlayer(player, grid, OppositeOf(player.direction), spacePressed)
      IN /\ ~m.result.moved /\ ~m.result.died /\ ~m.result.completedShape
         /\ m.player = player
         /\ m.grid = grid

\* A Draw-mode move was rejected: the player is still drawing.
C6_Witness ==
  /\ player.mode = DRAW
  /\ Len(player.linePath) >= 2
  /\ Attempted
  /\ ~moveResult[1].moved /\ ~moveResult[1].died

\* C7 (as claimed): in Draw mode every move attempt whose target is in
\* linePath reports died=true with moved=false and changes no grid cell,
\* nor the player's position, mode or linePath.
C7_SelfCollisionDies ==
  \A d \in Directions, spacePressed \in BOOLEAN :
    (player.mode = DRAW /\ OnPath(Target(player, d), player.linePath)) =>
      LET m == MovePlayer(player, grid, d, spacePressed)
      IN /\ m.result.died /\ ~m.result.moved
         /\ m.grid = grid
         /\ m.player.x = player.x /\ m.player.y = player.y
         /\ m.player.mode = player.mode
         /\ m.player.linePath = player.linePath

\* C7 (amended): the same for every move attempt that is not a reversal of
\* the facing.
C7_SelfCollisionDiesUnlessReversal ==
  \A d \in Directions, spacePressed \in BOOLEAN :
    (player.mode = DRAW /\ d # OppositeOf(player.direction)
       /\ OnPath(Target(player, d), player.linePath)) =>
      LET m == MovePlayer(player, grid, d, spacePressed)
      IN /\ m.result.died /\ ~m.result.moved
         /\ m.grid = grid
         /\ m.player.x = player.x /\ m.player.y = player.y
         /\ m.player.mode = player.mode
         /\ m.player.linePath = player.linePath

\* The tick after a self-collision on a point of the line other than its
\* first: a life is gone and the player is back at the start.
C7_Witness ==
  /\ Attempted
  /\ moveResult[1].died /\ ~moveResult[1].moved
  /\ lives = STARTING_LIVES - 1

\* C8 (as claimed): on the 10x10 grid the player starts at (5,9); the move
\* that arrives on (5,0) after drawing straight up reports completedShape
\* with a captured path of length 8, and the coverage after the capture is
\* strictly between 40% and 60%.
C8_UpScenario ==
  /\ lastMoveTime = 0 => (player.x = 5 /\ player.y = 9)
  /\ (player.y = 0 /\ Attempted /\ moveResult[1].moved) =>
       /\ player.x = 5
       /\ moveResult[1].completedShape
       /\ Len(moveResult[1].capturedPath) = 8
       /\ ~CoverageLeq(GetCoverage(grid), [num |-> 40, den |-> 1])
       /\ ~CoverageLeq([num |-> 60, den |-> 1], GetCoverage(grid))

\* C8 (amended): the same scenario, with the coverage after the capture
\* at exactly 68% (the 36 ring cells, the 8 line cells and the 24 cells of
\* the smaller side).
C8_UpScenarioCoverage68 ==
  /\ lastMoveTime = 0 => (player.x = 5 /\ player.y = 9)
  /\ \A i \in 1..Len(captured) :
       /\ captured[i].path = [k \in 1..8 |-> Point(5, 9 - k)]
       /\ GetCoverage(captured[i].after) = [num |-> 6800, den |-> 100]
  /\ (player.y = 0 /\ Attempted /\ moveResult[1].moved) =>
       /\ player.x = 5
       /\ moveResult[1].completedShape
       /\ Len(moveResult[1].capturedPath) = 8
       /\ Len(captured) = 1
       /\ grid = captured[1].after
       /\ Cardinality({p \in AllPoints(grid) : grid.cells[p.y][p.x] # EMPTY}) = 68

\* The tick on which the line drawn up from (5,9) arrives on (5,0).
C8_Witness ==
  /\ player.x = 5 /\ player.y = 0
  /\ Attempted
  /\ moveResult[1].completedShape
  /\ Len(captured) = 1

C10_CompleteShape ==
  \A d \in Directions, spacePressed \in BOOLEAN :
    LET t == Target(player, d)
        m == MovePlayer(player, grid, d, spacePressed)
    IN (player.mode = DRAW /\ d # OppositeOf(player.direction)
          /\ InGrid(grid, t) /\ grid.cells[t.y][t.x] # EMPTY
          /\ ~OnPath(t, player.linePath)) =>
         /\ m.player.x = t.x /\ m.player.y = t.y
         /\ m.player.mode = TRAVERSE
         /\ m.result.moved
         /\ m.result.completedShape
         /\ m.result.hasCapturedPath
         /\ m.result.capturedPath = player.linePath
         /\ m.player.linePath = << >>

\* A line of two or more cells was completed on this tick, and the player
\* stands next to its last cell.
C10_Witness ==
  /\ Attempted
  /\ moveResult[1].completedShape
  /\ Len(moveResult[1].capturedPath) >= 2
  /\ player.mode = TRAVERSE
  /\ player.linePath = << >>
  /\ Adjacent(player, moveResult[1].capturedPath[Len(moveResult[1].capturedPath)])

\* C11: isTraversable is true for every Border cell and every Line cell,
\* false for every Empty cell, and true for a Filled cell exactly when one
\* of its four neighbours is Empty.
C11_TraversableFrontier ==
  \A p \in AllPoints(grid) :
    LET cell == grid.cells[p.y][p.x]
        frontier == \E q \in AllPoints(grid) :
                      Adjacent(p, q) /\ grid.cells[q.y][q.x] = EMPTY
    IN /\ cell \in {BORDER, LINE} => IsTraversable(grid, p.x, p.y)
       /\ cell = EMPTY => ~IsTraversable(grid, p.x, p.y)
       /\ cell = FILLED => (IsTraversable(grid, p.x, p.y) <=> frontier)

\* C12: getCoverage is 100 times the number of cells that are not Empty
\* (Filled, Border and Line) over width * height, in every grid state.
C12_CoverageCountsLines ==
  LET nonEmpty == Cardinality({p \in AllPoints(grid) : grid.cells[p.y][p.x] # EMPTY})
      c == GetCoverage(grid)
  IN c.num * (grid.width * grid.height) = (100 * nonEmpty) * c.den

\* C13: for every in-bounds (x,y) and cell type T, getCell(x,y) after
\* setCell(x,y,T) returns T and no other cell changes; for every
\* out-of-bounds (x,y), getCell returns Border and setCell changes no cell.
C13_SetThenGet ==
  \A x \in -1..grid.width, y \in -1..grid.height, type \in CellTypes :
    LET after == SetCell(grid, x, y, type)
    IN IF Point(x, y) \in AllPoints(grid)
       THEN /\ GetCell(after, x, y) = type
            /\ \A p \in AllPoints(grid) \ {Point(x, y)} :
                 GetCell(after, p.x, p.y) = GetCell(grid, p.x, p.y)
            /\ after.width = grid.width /\ after.height = grid.height
       ELSE /\ GetCell(grid, x, y) = BORDER
            /\ GetCell(after, x, y) = BORDER
            /\ after = grid

\* setCell has overwritten cells of the ring with Line and with Empty.
C13_Witness ==
  /\ \E p \in AllPoints(grid) : grid.cells[p.y][p.x] = LINE
  /\ \E p \in AllPoints(grid) : grid.cells[p.y][p.x] = EMPTY
  /\ grid.cells[1][0] # grid.cells[0][1]

\* C14: lives stays within 0..STARTING_LIVES in every reachable state,
\* lives decreases only on a tick whose move reported died and then by
\* exactly 1, and gameOver is set exactly when lives = 0.
C14_LivesInRange ==
  /\ [](lives \in 0..STARTING_LIVES /\ (gameOver <=> lives = 0))
  /\ [][lives' # lives =>
          /\ lives' = lives - 1
          /\ Len(moveResult') = 1 /\ moveResult'[1].died]_vars

\* C15: starting from a fresh grid whose ring alone is below the target,
\* level never decreases and changes only on a tick on which a shape was
\* completed and the coverage after the capture is at least the target;
\* on every other tick level is unchanged.
C15_LevelOnlyOnCapture ==
  [][/\ level' >= level
     /\ level' # level =>
          /\ Len(moveResult') = 1
          /\ moveResult'[1].completedShape
          /\ Len(captured') = 1
          /\ CoverageLeq([num |-> TARGET_COVERAGE, den |-> 1],
                         GetCoverage(captured'[1].after))
     /\ (Len(moveResult') = 0 \/ Len(captured') = 0) => level' = level]_vars

\* The level has advanced by a capture, from a session that also saw a
\* death.
C15_Witness ==
  /\ level = 2
  /\ Len(captured) = 1
  /\ lives < STARTING_LIVES

\* The set of the points of a region, and the sum of the regions' lengths.
RegionSet(region) == {region[j] : j \in 1..Len(region)}

RECURSIVE SumOfSizes(_)
SumOfSizes(regions) ==
  IF Len(regions) = 0 THEN 0 ELSE Len(regions[1]) + SumOfSizes(Tail(regions))

\* C16: the flood fill of captureTerritory partitions the Empty cells of
\* the working copy: every Empty cell is in exactly one region, the regions
\* are pairwise disjoint, each is 4-connected and maximal, and the sizes
\* sum to the number of Empty cells.
C16_FloodFillPartitions ==
  \A i \in 1..Len(captured) :
    LET c == captured[i]
        copy == GridCopy(c.before, c.path)
        regions == FindRegions(c.before, copy, 0, {}, << >>)
        empties == {p \in AllPoints(c.before) :
                      c.before.cells[p.y][p.x] = EMPTY /\ ~OnPath(p, c.path)}
    IN Len(c.path) > 0 =>
         /\ \A p \in empties :
              Cardinality({k \in 1..Len(regions) : p \in RegionSet(regions[k])}) = 1
         /\ \A k \in 1..Len(regions) :
              /\ Len(regions[k]) = Cardinality(RegionSet(regions[k]))
              /\ RegionSet(regions[k]) \in EmptyRegions(c.before, c.path)
         /\ \A k, l \in 1..Len(regions) :
              k # l => RegionSet(regions[k]) \cap RegionSet(regions[l]) = {}
         /\ SumOfSizes(regions) = Cardinality(empties)

\* A capture whose path and walls split the Empty cells into two or more
\* regions, one of them of three cells or more.
C16_Witness ==
  /\ Len(captured) = 1
  /\ Len(captured[1].path) > 0
  /\ Cardinality(EmptyRegions(captured[1].before, captured[1].path)) >= 2
  /\ \E r \in EmptyRegions(captured[1].before, captured[1].path) : Cardinality(r) >= 3

\* C17: a move is attempted on a tick only if at least MOVE_INTERVAL has
\* elapsed since the last processed tick, and at most one move is attempted
\* per tick.  lastMoveTime is the timestamp of the last processed tick and
\* never decreases, so it is at least the timestamp of the last attempt:
\* two consecutive attempts are at least one interval apart.
C17_MoveInterval ==
  /\ [](Len(moveResult) <= 1)
  /\ [][/\ lastMoveTime' >= lastMoveTime
        /\ Len(moveResult') = 1 => lastMoveTime' - lastMoveTime >= MOVE_INTERVAL
        /\ lastMoveTime' # lastMoveTime => lastMoveTime' - lastMoveTime >= MOVE_INTERVAL]_vars

\* Two moves attempted on consecutive processed ticks: a line of two cells
\* two intervals after the start.
C17_Witness ==
  /\ Attempted
  /\ lastMoveTime = 2 * MOVE_INTERVAL
  /\ Len(player.linePath) = 2

\* C18: a tick on which no arrow key is held, so that the input handler
\* reports no direction, leaves every grid cell, the player's position,
\* mode, facing and linePath, and level, lives and gameOver unchanged,
\* whether or not the interval has elapsed.
C18_NoDirectionNoOp ==
  \A spacePressed \in BOOLEAN :
    \A timestamp \in {lastMoveTime + MOVE_INTERVAL - 1, lastMoveTime + MOVE_INTERVAL} :
      LET keyState == [k \in Keys |-> k = " " /\ spacePressed]
          after == Update(This, timestamp, keyState)
      IN /\ after.grid = grid
         /\ after.player = player
         /\ after.level = level
         /\ after.lives = lives
         /\ after.gameOver = gameOver
         /\ after.moveResult = << >>

\* A tick without a move on a session in Draw mode with a line of three
\* cells, one interval later than three moves take.
C18_Witness ==
  /\ ~Attempted
  /\ player.mode = DRAW
  /\ Len(player.linePath) = 3
  /\ lastMoveTime = 4 * MOVE_INTERVAL

\* C19: a move attempt whose target is outside [0,width) x [0,height)
\* returns moved, completedShape and died all false and leaves the
\* position, facing, mode, linePath and every grid cell as they were.
C19_OutOfBoundsRejected ==
  \A d \in Directions, spacePressed \in BOOLEAN :
    LET t == Target(player, d)
        m == MovePlayer(player, grid, d, spacePressed)
    IN (t.x < 0 \/ t.x >= grid.width \/ t.y < 0 \/ t.y >= grid.height) =>
         /\ ~m.result.moved /\ ~m.result.completedShape /\ ~m.result.died
         /\ m.player.x = player.x /\ m.player.y = player.y
         /\ m.player.direction = player.direction
         /\ m.player.mode = player.mode
         /\ m.player.linePath = player.linePath
         /\ m.grid = grid

\* A move was rejected in the bottom-left corner, where the two rejected
\* directions both point off the grid.
C19_Witness ==
  /\ Attempted
  /\ ~moveResult[1].moved
  /\ player.x = 0 /\ player.y = grid.height - 1
  /\ player.direction = LEFT

\* C20: captureTerritory with an empty path changes no grid cell, Line
\* cells included, so calling it again on a grid a capture has resolved
\* changes nothing.
C20_EmptyPathNoOp ==
  /\ CaptureTerritory(grid, << >>) = grid
  /\ \A i \in 1..Len(captured) :
       /\ captured[i].path = << >> => captured[i].after = captured[i].before
       /\ CaptureTerritory(captured[i].after, << >>) = captured[i].after

\* captureTerritory was called with the empty path on a grid that holds
\* Line cells and two or more Empty regions.
C20_Witness ==
  /\ Len(captured) = 1
  /\ captured[1].path = << >>
  /\ \E p \in AllPoints(grid) : grid.cells[p.y][p.x] = LINE
  /\ Cardinality(EmptyRegions(grid, << >>)) >= 2

\* The set of the coordinates on the player's linePath, and the set of the
\* Line cells of the grid.
PathCells == {player.linePath[i] : i \in 1..Len(player.linePath)}

LineCellSet == {p \in AllPoints(grid) : grid.cells[p.y][p.x] = LINE}

\* C21: in every reachable state linePath is empty if and only if the
\* player's mode is Traverse.
C21_PathEmptyIffTraverse ==
  (player.linePath = << >>) <=> (player.mode = TRAVERSE)

\* A second line is under way on a grid that holds captured territory.
C21_Witness ==
  /\ player.mode = DRAW
  /\ Len(player.linePath) >= 2
  /\ \E p \in AllPoints(grid) : grid.cells[p.y][p.x] = FILLED

\* C22: in every reachable state the set of Line cells of the grid equals
\* the set of the coordinates on linePath; no Line cell exists while the
\* player is in Traverse mode.
C22_LineCellsArePath ==
  /\ LineCellSet = PathCells
  /\ player.mode = TRAVERSE => LineCellSet = {}

\* A line of two cells drawn after a death has cleared an earlier line.
C22_Witness ==
  /\ lives = STARTING_LIVES - 1
  /\ player.mode = DRAW
  /\ Len(player.linePath) = 2
  /\ Cardinality(LineCellSet) = 2

C24_FloodFillTerminates ==
  /\ [](/\ Len(flood.region) = Cardinality(RegionSet(flood.region))
        /\ Cardinality(flood.visited) = SumOfSizes(flood.regions) + Len(flood.region)
        /\ flood.visited =
             RegionSet(flood.region)
               \cup UNION {RegionSet(flood.regions[k]) : k \in 1..Len(flood.regions)}
        /\ Len(flood.stack) <= 4 * grid.width * grid.height + 1)
  /\ <>(flood.phase = "done")
  /\ [](flood.phase = "done" =>
          flood.regions = FindRegions(grid, flood.copy, 0, {}, << >>))

\* The search has ended with two regions found, one of them of four cells
\* or more.
C24_Witness ==
  /\ flood.phase = "done"
  /\ Len(flood.regions) = 2
  /\ \E k \in 1..Len(flood.regions) : Len(flood.regions[k]) >= 4

\* C25: after captureTerritory with a non-empty path on a grid with at
\* least one Empty region, exactly one maximal 4-connected Empty region
\* remains, it is one of the regions found and has the largest size among
\* them, and every other region found, those tied with it included, is
\* Filled.
C25_OneLargestRegionRemains ==
  \A i \in 1..Len(captured) :
    LET c == captured[i]
        found == EmptyRegions(c.before, c.path)
        left == EmptyRegions(c.after, << >>)
    IN (Len(c.path) > 0 /\ found # {}) =>
         /\ Cardinality(left) = 1
         /\ \A r \in left :
              /\ r \in found
              /\ Cardinality(r) = LargestSize(found)
              /\ \A o \in found \ {r} :
                   \A p \in o : c.after.cells[p.y][p.x] = FILLED

\* A capture that found two regions tied for the largest size.
C25_Witness ==
  /\ Len(captured) = 1
  /\ Len(captured[1].path) > 0
  /\ \E r, o \in EmptyRegions(captured[1].before, captured[1].path) :
       /\ r # o
       /\ Cardinality(r) = Cardinality(o)
       /\ Cardinality(r) = LargestSize(EmptyRegions(captured[1].before, captured[1].path))

\* C28: captureTerritory changes only Empty cells and Line cells, and only
\* to Filled: every cell that was Filled or Border has the same value
\* after the call, and no cell becomes Empty or Line.
C28_CaptureOnlyFills ==
  \A i \in 1..Len(captured) :
    LET c == captured[i]
    IN \A p \in AllPoints(c.before) :
         LET old == c.before.cells[p.y][p.x]
             new == c.after.cells[p.y][p.x]
         IN /\ old \in {FILLED, BORDER} => new = old
            /\ new # old => (old \in {EMPTY, LINE} /\ new = FILLED)

\* A capture that turned a Line cell and an Empty cell Filled on a grid
\* that already held a Filled cell.
C28_Witness ==
  /\ Len(captured) = 1
  /\ \E p, q, r \in AllPoints(grid) :
       /\ captured[1].before.cells[p.y][p.x] = LINE
       /\ captured[1].after.cells[p.y][p.x] = FILLED
       /\ captured[1].before.cells[q.y][q.x] = EMPTY
       /\ captured[1].after.cells[q.y][q.x] = FILLED
       /\ captured[1].before.cells[r.y][r.x] = FILLED

\* C26: in every reachable state with the player in Traverse mode the
\* Empty cells of the grid form at most one 4-connected region.
C26_OneEmptyRegionInTraverse ==
  player.mode = TRAVERSE => Cardinality(EmptyRegions(grid, << >>)) <= 1

\* The player is back in Traverse mode after a capture that filled a
\* region and left the coverage below the target.
C26_Witness ==
  /\ player.mode = TRAVERSE
  /\ level = 1
  /\ Len(captured) = 1
  /\ Cardinality(EmptyRegions(captured[1].before, captured[1].path)) >= 2
  /\ Cardinality(EmptyRegions(grid, << >>)) = 1

\* C27: in every reachable state the player's position is inside the grid;
\* in Traverse mode the cell under the player is Border or Filled, and in
\* Draw mode the position is the last element of linePath and that cell
\* is Line.
C27_PlayerOnGrid ==
  /\ InGrid(grid, Point(player.x, player.y))
  /\ player.mode = TRAVERSE => grid.cells[player.y][player.x] \in {BORDER, FILLED}
  /\ player.mode = DRAW =>
       /\ Len(player.linePath) > 0
       /\ player.linePath[Len(player.linePath)] = Point(player.x, player.y)
       /\ grid.cells[player.y][player.x] = LINE

\* The player stands on a Filled cell off the ring, in Traverse mode.
C27_Witness ==
  /\ player.mode = TRAVERSE
  /\ Point(player.x, player.y) \in Interior(grid)
  /\ grid.cells[player.y][player.x] = FILLED

\* C29: in every reachable state linePath is a simple 4-connected path of
\* interior coordinates: no coordinate occurs twice, two consecutive
\* elements are one unit step apart, and no element is on the ring.
C29_PathSimple ==
  /\ \A i, j \in 1..Len(player.linePath) :
       i # j => player.linePath[i] # player.linePath[j]
  /\ \A i \in 1..(Len(player.linePath) - 1) :
       Adjacent(player.linePath[i], player.linePath[i + 1])
  /\ \A i \in 1..Len(player.linePath) : player.linePath[i] \in Interior(grid)

\* A line of four cells or more with a turn in it.
C29_Witness ==
  /\ Len(player.linePath) >= 4
  /\ \E i, j \in 1..Len(player.linePath) :
       /\ player.linePath[i].x # player.linePath[j].x
       /\ player.linePath[i].y # player.linePath[j].y

\* C30: every cell on the outer ring of the grid is Border in every
\* reachable state.
C30_RingIsBorder ==
  \A p \in AllPoints(grid) \ Interior(grid) : grid.cells[p.y][p.x] = BORDER

\* A line was completed onto the left ring and the grid holds captured
\* territory.
C30_Witness ==
  /\ Attempted
  /\ moveResult[1].completedShape
  /\ player.x = 0
  /\ level = 1
  /\ \E p \in AllPoints(grid) : grid.cells[p.y][p.x] = FILLED

====
